---- MODULE Spec2Model ----
(***************************************************************************)
(* zeitstempel: a monotonic timestamp as an integer, from one of two clock *)
(* sources (including / excluding suspend), behind a typed Instant.        *)
(*                                                                         *)
(* The model has three layers, as the crate has:                           *)
(*   - the u64 and Duration arithmetic the crate uses from std,            *)
(*   - the platform clock providers (src/src/mac.rs, windows.rs,           *)
(*     unsupported.rs; linux.rs is referenced by lib.rs but absent),       *)
(*   - the typed Instant<T> of src/src/lib.rs.                             *)
(*                                                                         *)
(* u64 is modelled at width U64Bits: TLC's integers are 32-bit, so every   *)
(* u64 operation is written so that no intermediate exceeds U64_MAX.       *)
(***************************************************************************)
EXTENDS Integers, Sequences, FiniteSets, TLC

\* ------------------------------------------------------------------ bounds

\* Width of the modelled u64.
U64Bits == 30

\* How many times the clock advances in one run.
MaxTicks == 2

\* --------------------------------------------------------------- constants

U64_MAX == 2 * (2 ^ (U64Bits - 1) - 1) + 1

NANOS_PER_SEC == 1000000000

NANOS_PER_MILLI == 1000000

MILLIS_PER_SEC == 1000

\* windows.rs: const SYSTEM_TIME_UNIT: u64 = 100
SYSTEM_TIME_UNIT == 100

\* mac.rs: clock ids handed to clock_gettime_nsec_np
CLOCK_MONOTONIC_RAW == 4

CLOCK_UPTIME_RAW == 8

\* lib.rs, test times_are_close_together
max_delta_ms == 10

\* ---------------------------------------------------------- u64 arithmetic

\* u64::overflowing_sub: the wrapped difference and the borrow.
overflowing_sub(a, b) ==
    IF a >= b THEN [val |-> a - b, of |-> FALSE]
    ELSE [val |-> U64_MAX - (b - a) + 1, of |-> TRUE]

\* u64::wrapping_sub: the difference modulo 2^w, always a value.
wrapping_sub_as_checked(a, b) ==
    [some |-> TRUE, val |-> overflowing_sub(a, b).val]

\* u64::checked_sub as used by Instant::checked_duration_since.
checked_sub(a, b) ==
    LET r == overflowing_sub(a, b)
    IN  IF r.of THEN [some |-> FALSE, val |-> 0] ELSE [some |-> TRUE, val |-> r.val]

\* u64 addition with its carry.
overflowing_add(a, b) ==
    IF a > U64_MAX - b THEN [val |-> a - (U64_MAX - b) - 1, of |-> TRUE]
    ELSE [val |-> a + b, of |-> FALSE]

\* u64 multiplication by double-and-add: the product modulo 2^w and whether
\* the true product did not fit.
RECURSIVE overflowing_mul(_, _)
overflowing_mul(a, b) ==
    IF b = 0 THEN [val |-> 0, of |-> FALSE]
    ELSE LET h == overflowing_mul(a, b \div 2)
             d == overflowing_add(h.val, h.val)
             r == IF b % 2 = 1 THEN overflowing_add(d.val, a)
                  ELSE [val |-> d.val, of |-> FALSE]
         IN  [val |-> r.val, of |-> h.of \/ d.of \/ r.of]

\* ---------------------------------------------------------------- Duration

\* std::time::Duration { secs, nanos } with nanos < NANOS_PER_SEC.
ZeroDuration == [secs |-> 0, nanos |-> 0]

\* Duration::from_nanos
from_nanos(n) == [secs |-> n \div NANOS_PER_SEC, nanos |-> n % NANOS_PER_SEC]

\* Duration::from_millis
from_millis(ms) ==
    [secs |-> ms \div MILLIS_PER_SEC, nanos |-> (ms % MILLIS_PER_SEC) * NANOS_PER_MILLI]

\* Duration::subsec_millis: the milliseconds of the fractional second only
subsec_millis(d) == d.nanos \div NANOS_PER_MILLI

\* Duration::as_millis (a u128 in Rust; callers keep secs small enough)
as_millis(d) == d.secs * MILLIS_PER_SEC + d.nanos \div NANOS_PER_MILLI

\* Duration::as_nanos, for durations that came from a u64 of nanoseconds
as_nanos(d) == d.secs * NANOS_PER_SEC + d.nanos

\* derived Ord of Duration: secs first, then nanos
DurationGe(a, b) == a.secs > b.secs \/ (a.secs = b.secs /\ a.nanos >= b.nanos)

\* a + b on timespec-like pairs
DurationAdd(a, b) ==
    LET n == a.nanos + b.nanos
    IN  IF n >= NANOS_PER_SEC THEN [secs |-> a.secs + b.secs + 1, nanos |-> n - NANOS_PER_SEC]
        ELSE [secs |-> a.secs + b.secs, nanos |-> n]

\* a - b on timespec-like pairs, for a >= b
DurationSub(a, b) ==
    IF a.nanos >= b.nanos THEN [secs |-> a.secs - b.secs, nanos |-> a.nanos - b.nanos]
    ELSE [secs |-> a.secs - b.secs - 1, nanos |-> a.nanos + NANOS_PER_SEC - b.nanos]

\* ----------------------------------------------------------------- state

VARIABLES
    provider,         \* the sys module compiled in (lib.rs cfg_if)
    overflow_checks,  \* build profile: does u64 `*` panic on overflow
    base,             \* the OS counters' value when the run starts (raw units)
    wall,             \* awake time since the run started, a (secs, nanos) pair
    susp,             \* nanoseconds spent suspended since the run started
    nticks,           \* how often the clock has advanced
    cell,             \* unsupported.rs INIT_TIME: the Lazy cell
    inits,            \* history: the values its initializer produced
    pc,               \* per thread: the call in progress
    inst,             \* the Instant bindings of the program
    res,              \* per binding: the outcome of its last elapsed()
    last,             \* the last comparison / subtraction and its outcome
    maxRet,           \* history: per clock, the largest tick value returned so far
    mono              \* history: no call returned less than a call that ended before it began

vars == <<provider, overflow_checks, base, wall, susp, nticks, cell, inits,
          pc, inst, res, last, maxRet, mono>>

env == <<provider, overflow_checks, base, wall, susp, nticks>>

Providers == {"mac", "linux", "windows", "unsupported"}

Threads == {"t1", "t2"}

Slots == {1, 2}

\* lib.rs: pub struct IncludingSuspend;
IncludingSuspend == "IncludingSuspend"

\* lib.rs: pub struct ExcludingSuspend;
ExcludingSuspend == "ExcludingSuspend"

Tags == {IncludingSuspend, ExcludingSuspend}

\* -------------------------------------------------------------- OS clocks

\* Nanoseconds awake since the run started (providers with u64 counters only:
\* their Tick guard keeps wall.secs small).
WallNs == wall.secs * NANOS_PER_SEC + wall.nanos

\* macOS clock_gettime_nsec_np: CLOCK_UPTIME_RAW stops while asleep,
\* CLOCK_MONOTONIC_RAW does not.
clock_gettime_nsec_np(clock_id) ==
    IF clock_id = CLOCK_UPTIME_RAW THEN base + WallNs ELSE base + WallNs + susp

\* Windows interrupt time, in units of InterruptTimeUnitNs nanoseconds.
InterruptTimeUnitNs == 100

QueryInterruptTime == base + (WallNs + susp) \div InterruptTimeUnitNs

QueryUnbiasedInterruptTime == base + WallNs \div InterruptTimeUnitNs

\* Linux clock_gettime(CLOCK_BOOTTIME / CLOCK_MONOTONIC) as nanoseconds.
clock_gettime_ns(boottime) ==
    IF boottime THEN base + WallNs + susp ELSE base + WallNs

\* std::time::Instant::now() on a platform without a provider: an opaque
\* monotonic point; only differences are observable.
std_Instant_now == wall

\* ------------------------------------------------------------- providers
\* A provider call yields [ok, val, raw, fn, ref]: whether it returned, the u64
\* it returned, the raw OS value it read, the function that ran, and (fallback)
\* the reference instant it measured from.

Returned(v, rawv, f) == [ok |-> TRUE, val |-> v, raw |-> rawv, fn |-> f, ref |-> ZeroDuration]

\* Rust's `a * b` on u64: panics when the build checks overflow, wraps otherwise.
u64_mul(a, b, f) ==
    LET m == overflowing_mul(a, b)
    IN  [ok |-> ~(m.of /\ overflow_checks), val |-> m.val, raw |-> a, fn |-> f,
         ref |-> ZeroDuration]

\* mac.rs
mac_now_excluding_suspend ==
    Returned(clock_gettime_nsec_np(CLOCK_UPTIME_RAW),
             clock_gettime_nsec_np(CLOCK_UPTIME_RAW), "now_excluding_suspend")

mac_now_including_suspend ==
    Returned(clock_gettime_nsec_np(CLOCK_MONOTONIC_RAW),
             clock_gettime_nsec_np(CLOCK_MONOTONIC_RAW), "now_including_suspend")

\* windows.rs
\* the interrupt time returned as it is, in its own unit
windows_now_excluding_suspend_raw ==
    Returned(QueryUnbiasedInterruptTime, QueryUnbiasedInterruptTime, "now_excluding_suspend")

windows_now_including_suspend_raw ==
    Returned(QueryInterruptTime, QueryInterruptTime, "now_including_suspend")

windows_now_excluding_suspend ==
    LET interrupt_time == QueryUnbiasedInterruptTime
    IN  u64_mul(interrupt_time, SYSTEM_TIME_UNIT, "now_excluding_suspend")

windows_now_including_suspend ==
    LET interrupt_time == QueryInterruptTime
    IN  u64_mul(interrupt_time, SYSTEM_TIME_UNIT, "now_including_suspend")

\* linux.rs is not among the sources: after the description of the Linux
\* provider (boot-time clock for "including", monotonic clock for "excluding").
linux_now_excluding_suspend ==
    Returned(clock_gettime_ns(FALSE), clock_gettime_ns(FALSE), "now_excluding_suspend")

linux_now_including_suspend ==
    Returned(clock_gettime_ns(TRUE), clock_gettime_ns(TRUE), "now_including_suspend")

\* unsupported.rs: static INIT_TIME: Lazy<Instant> = Lazy::new(Instant::now)
EmptyCell == [state |-> "Incomplete", value |-> ZeroDuration]

\* once_cell's initialize_or_wait, by the state a caller finds: the first
\* caller claims the cell and runs the initializer, callers that find it
\* running wait, callers that find it complete go on.
initialize_or_wait_racy(state) ==
    IF state = "Complete" THEN [state |-> "Complete", stage |-> "read"]
    ELSE [state |-> "Running", stage |-> "init"]

initialize_or_wait(state) ==
    CASE state = "Incomplete" -> [state |-> "Running", stage |-> "init"]
      [] state = "Running"    -> [state |-> "Running", stage |-> "force"]
      [] OTHER                -> [state |-> "Complete", stage |-> "read"]

\* Instant::elapsed of std: now - self.
std_Instant_elapsed(self) == DurationSub(std_Instant_now, self)

\* d.as_millis().try_into(): the u128 millisecond count as a u64, if it fits.
\* The u128 is not materialised: secs * 1000 + sub <= U64_MAX is decided first.
as_millis_try_into(d) ==
    LET sub == d.nanos \div NANOS_PER_MILLI
    IN  IF d.secs <= (U64_MAX - sub) \div MILLIS_PER_SEC
        THEN [some |-> TRUE, val |-> as_millis(d)]
        ELSE [some |-> FALSE, val |-> 0]

\* Result::unwrap_or
unwrap_or(r, default) == IF r.some THEN r.val ELSE default

\* unsupported.rs, the body shared by both functions; INIT_TIME is
\* dereferenced where the cell's value lives.
init_time_elapsed_ms(f) ==
    LET d == std_Instant_elapsed(cell.value)
    IN  [ok |-> TRUE, val |-> unwrap_or(as_millis_try_into(d), 0), raw |-> 0,
         fn |-> f, ref |-> cell.value]

now_including_suspend_ms == init_time_elapsed_ms("now_including_suspend_ms")

now_excluding_suspend_ms == init_time_elapsed_ms("now_excluding_suspend_ms")

\* The functions each sys module defines, and the ones lib.rs calls.
sys_exports(p) ==
    IF p = "unsupported" THEN {"now_including_suspend_ms", "now_excluding_suspend_ms"}
    ELSE {"now_including_suspend", "now_excluding_suspend"}

sys_required == {"now_including_suspend", "now_excluding_suspend"}

\* lib.rs: fn now_including_suspend() -> u64 { sys::now_including_suspend() }
\* For the fallback the call is bound to the module's function for the same
\* clock, although its name differs (see sys_exports): the model states what
\* the functions compute.
now_including_suspend ==
    CASE provider = "mac"     -> mac_now_including_suspend
      [] provider = "linux"   -> linux_now_including_suspend
      [] provider = "windows" -> windows_now_including_suspend
      [] OTHER                -> now_including_suspend_ms

\* lib.rs: fn now_excluding_suspend() -> u64 { sys::now_excluding_suspend() }
now_excluding_suspend ==
    CASE provider = "mac"     -> mac_now_excluding_suspend
      [] provider = "linux"   -> linux_now_excluding_suspend
      [] provider = "windows" -> windows_now_excluding_suspend
      [] OTHER                -> now_excluding_suspend_ms

\* ------------------------------------------------------- Instant<T> values
\* lib.rs: pub struct Instant<T>(u64, T). A binding holds the two fields
\* (ticks, tag) and, as history, how it came to be: the tick value it was
\* created with, the provider function that was read, the raw OS value, the
\* time of the read and the fallback's reference instant.

NoInstant ==
    [kind |-> "empty", ticks |-> 0, tag |-> "none", created |-> 0, src |-> "none",
     raw |-> 0, wall |-> ZeroDuration, susp |-> 0, ref |-> ZeroDuration]

\* An instant built inside the crate from a given tick value.
Synthetic(v, tag) ==
    [kind |-> "instant", ticks |-> v, tag |-> tag, created |-> v, src |-> "synthetic",
     raw |-> 0, wall |-> ZeroDuration, susp |-> 0, ref |-> ZeroDuration]

\* self.0.wrapping_sub(earlier.0) in place of checked_sub
checked_duration_since_wrapping(self, earlier) ==
    LET r == wrapping_sub_as_checked(self.ticks, earlier.ticks)
    IN  [kind |-> "some", dur |-> from_nanos(r.val)]

\* lib.rs: self.0.checked_sub(earlier.0).map(Duration::from_nanos)
checked_duration_since(self, earlier) ==
    LET r == checked_sub(self.ticks, earlier.ticks)
    IN  IF r.some THEN [kind |-> "some", dur |-> from_nanos(r.val)]
        ELSE [kind |-> "none", dur |-> ZeroDuration]

\* .unwrap_or_default() in place of .expect(..)
duration_since_lenient(self, earlier) ==
    LET o == checked_duration_since(self, earlier)
    IN  [kind |-> "ok", dur |-> o.dur]

\* lib.rs: self.checked_duration_since(earlier).expect("supplied instant is later than self")
duration_since(self, earlier) ==
    LET o == checked_duration_since(self, earlier)
    IN  IF o.kind = "some" THEN [kind |-> "ok", dur |-> o.dur]
        ELSE [kind |-> "panic", dur |-> ZeroDuration]

\* lib.rs: impl Sub: self.duration_since(other)
sub(self, other) == duration_since(self, other)

\* lib.rs: as_timestamp
as_timestamp(self) == self.ticks

\* Ord of u64
u64_cmp(a, b) == IF a < b THEN "Less" ELSE IF a > b THEN "Greater" ELSE "Equal"

\* derived Ord of a unit struct: its only value equals itself
marker_cmp(x, y) == "Equal"

\* the fields compared in the wrong order of operands
cmp_swapped(a, b) ==
    LET c == u64_cmp(b.ticks, a.ticks)
    IN  IF c # "Equal" THEN c ELSE marker_cmp(a.tag, b.tag)

\* #[derive(PartialOrd, Ord)] on Instant<T>(u64, T): field by field
cmp(a, b) ==
    LET c == u64_cmp(a.ticks, b.ticks)
    IN  IF c # "Equal" THEN c ELSE marker_cmp(a.tag, b.tag)

\* #[derive(PartialEq, Eq)]
eq(a, b) == a.ticks = b.ticks /\ marker_cmp(a.tag, b.tag) = "Equal"

CompareOps == {"lt", "le", "eq", "ge", "gt"}

compare(op, a, b) ==
    CASE op = "lt" -> cmp(a, b) = "Less"
      [] op = "le" -> cmp(a, b) # "Greater"
      [] op = "eq" -> eq(a, b)
      [] op = "ge" -> cmp(a, b) # "Less"
      [] OTHER     -> cmp(a, b) = "Greater"

\* Every binary operation is declared on Instant<T> with an Instant<T>
\* argument (impl<T> Instant<T>, impl<T> Sub<Instant<T>> for Instant<T>, the
\* derived comparisons): the two operands have the same T.
TypeChecks(a, b) == a.tag = b.tag

\* ------------------------------------------------------ Instant factories

\* now() calling the other clock's function
Instant_ExcludingSuspend_now_wrong_clock ==
    [reading |-> now_including_suspend, tag |-> ExcludingSuspend]

\* lib.rs: Instant(now_including_suspend(), IncludingSuspend)
Instant_IncludingSuspend_now ==
    [reading |-> now_including_suspend, tag |-> IncludingSuspend]

\* lib.rs: Instant(now_excluding_suspend(), ExcludingSuspend)
Instant_ExcludingSuspend_now ==
    [reading |-> now_excluding_suspend, tag |-> ExcludingSuspend]

\* Self::now(), resolved by the type of self
Self_now(tag) ==
    IF tag = IncludingSuspend THEN Instant_IncludingSuspend_now
    ELSE Instant_ExcludingSuspend_now

\* The binding a factory call leaves: the instant, or the panic of the read.
Bound(n) ==
    [kind |-> IF n.reading.ok THEN "instant" ELSE "panic",
     ticks |-> IF n.reading.ok THEN n.reading.val ELSE 0,
     tag |-> n.tag,
     created |-> IF n.reading.ok THEN n.reading.val ELSE 0,
     src |-> n.reading.fn, raw |-> n.reading.raw,
     wall |-> wall, susp |-> susp, ref |-> n.reading.ref]

NoResult ==
    [kind |-> "none", dur |-> ZeroDuration, now |-> 0, readok |-> FALSE, raw |-> 0,
     src |-> "none", self |-> NoInstant, wall |-> ZeroDuration, susp |-> 0,
     ref |-> ZeroDuration]

\* lib.rs: elapsed: Self::now() - *self, given the now() it obtained
elapsed(self, n) ==
    IF ~n.reading.ok
    THEN [kind |-> "panic", dur |-> ZeroDuration, now |-> 0, readok |-> FALSE,
          raw |-> n.reading.raw, src |-> n.reading.fn, self |-> self, wall |-> wall,
          susp |-> susp, ref |-> n.reading.ref]
    ELSE LET r == sub([ticks |-> n.reading.val, tag |-> n.tag], self)
         IN  [kind |-> r.kind, dur |-> r.dur, now |-> n.reading.val, readok |-> TRUE,
              raw |-> n.reading.raw, src |-> n.reading.fn, self |-> self, wall |-> wall,
              susp |-> susp, ref |-> n.reading.ref]

\* ----------------------------------------------------------------- calls

IdlePc ==
    [stage |-> "idle", op |-> "none", tag |-> "none", slot |-> 0, floor |-> 0,
     self |-> NoInstant]

NoLast ==
    [op |-> "none", a |-> NoInstant, b |-> NoInstant, kind |-> "none",
     dur |-> ZeroDuration, flag |-> FALSE, num |-> 0]

\* The clock is read and the call returns: a factory binds its instant,
\* elapsed() leaves its outcome. floor is the largest value the same clock
\* had returned when the call began.
Complete(t, op, tag, s, self, floor) ==
    LET n == Self_now(tag)
    IN  /\ inst' = IF op = "now" THEN [inst EXCEPT ![s] = Bound(n)] ELSE inst
        /\ res' = IF op = "elapsed" THEN [res EXCEPT ![s] = elapsed(self, n)] ELSE res
        /\ maxRet' = IF n.reading.ok /\ n.reading.val > maxRet[tag]
                     THEN [maxRet EXCEPT ![tag] = n.reading.val] ELSE maxRet
        /\ mono' = (mono /\ (n.reading.ok => n.reading.val >= floor))
        /\ pc' = [pc EXCEPT ![t] = IdlePc]
        /\ UNCHANGED <<env, cell, inits, last>>

\* A call of the typed layer by thread t. On mac, linux and windows the
\* provider is one read of an OS counter. The fallback dereferences INIT_TIME
\* first: once the cell is complete that is a load of a value that never
\* changes, taken together with the read; until then the caller goes through
\* LazyForce (and LazyInit) before it measures in InitTimeElapsed.
Call(t, op, tag, s, self) ==
    /\ pc[t].stage = "idle"
    /\ IF provider = "unsupported" /\ cell.state # "Complete"
       THEN /\ pc' = [pc EXCEPT ![t] = [stage |-> "force", op |-> op, tag |-> tag,
                                        slot |-> s, floor |-> maxRet[tag], self |-> self]]
            /\ UNCHANGED <<env, cell, inits, inst, res, last, maxRet, mono>>
       ELSE Complete(t, op, tag, s, self, maxRet[tag])

Pending(op, s) == \E u \in Threads : pc[u].op = op /\ pc[u].slot = s

\* Bindings are made once and in order: let ts1 = ..; let ts2 = ..;
Unbound(s) ==
    /\ inst[s].kind = "empty"
    /\ ~Pending("now", s)
    /\ \A s0 \in Slots : s0 < s => (inst[s0].kind # "empty" \/ Pending("now", s0))

\* let ts = Instant::now_including_suspend();
NowIncludingSuspend(t, s) ==
    /\ Unbound(s)
    /\ Call(t, "now", IncludingSuspend, s, NoInstant)

\* let ts = Instant::now_excluding_suspend();
NowExcludingSuspend(t, s) ==
    /\ Unbound(s)
    /\ Call(t, "now", ExcludingSuspend, s, NoInstant)

\* ts.elapsed()
Elapsed(t, s) ==
    /\ inst[s].kind = "instant"
    /\ res[s].kind = "none"
    /\ ~Pending("elapsed", s)
    /\ Call(t, "elapsed", inst[s].tag, s, inst[s])

\* unsupported.rs: INIT_TIME is dereferenced (Lazy::force)
LazyForce(t) ==
    /\ pc[t].stage = "force"
    /\ LET nx == initialize_or_wait(cell.state)
       IN  /\ nx.stage # "force"
           /\ cell' = [cell EXCEPT !.state = nx.state]
           /\ pc' = [pc EXCEPT ![t].stage = nx.stage]
    /\ UNCHANGED <<env, inits, inst, res, last, maxRet, mono>>

\* the initializer runs: Instant::now(), and the value is published
LazyInit(t) ==
    /\ pc[t].stage = "init"
    /\ cell' = [state |-> "Complete", value |-> std_Instant_now]
    /\ inits' = Append(inits, std_Instant_now)
    /\ pc' = [pc EXCEPT ![t].stage = "read"]
    /\ UNCHANGED <<env, inst, res, last, maxRet, mono>>

\* unsupported.rs: INIT_TIME.elapsed(), as_millis, try_into, unwrap_or(0)
InitTimeElapsed(t) ==
    /\ pc[t].stage = "read"
    /\ Complete(t, pc[t].op, pc[t].tag, pc[t].slot, pc[t].self, pc[t].floor)

\* ------------------------------------------------- operations on two instants

\* One outcome is held at a time: the next operation is evaluated once the
\* previous outcome has been dropped (Drop).
BothBound(s1, s2) ==
    /\ last.op = "none"
    /\ inst[s1].kind = "instant"
    /\ inst[s2].kind = "instant"

Outcome(op, a, b, kind, dur, flag, num) ==
    /\ last' = IF TypeChecks(a, b)
               THEN [op |-> op, a |-> a, b |-> b, kind |-> kind, dur |-> dur,
                     flag |-> flag, num |-> num]
               ELSE [op |-> op, a |-> a, b |-> b, kind |-> "type_error",
                     dur |-> ZeroDuration, flag |-> FALSE, num |-> 0]
    /\ UNCHANGED <<env, cell, inits, pc, inst, res, maxRet, mono>>

\* a.checked_duration_since(b)
CheckedDurationSince(s1, s2) ==
    /\ BothBound(s1, s2)
    /\ LET r == checked_duration_since(inst[s1], inst[s2])
       IN  Outcome("checked_duration_since", inst[s1], inst[s2], r.kind, r.dur, FALSE, 0)

\* a.duration_since(b)
DurationSince(s1, s2) ==
    /\ BothBound(s1, s2)
    /\ LET r == duration_since(inst[s1], inst[s2])
       IN  Outcome("duration_since", inst[s1], inst[s2], r.kind, r.dur, FALSE, 0)

\* a - b
Sub(s1, s2) ==
    /\ BothBound(s1, s2)
    /\ LET r == sub(inst[s1], inst[s2])
       IN  Outcome("sub", inst[s1], inst[s2], r.kind, r.dur, FALSE, 0)

\* a < b, a <= b, a == b, a >= b, a > b
Compare(op, s1, s2) ==
    /\ BothBound(s1, s2)
    /\ Outcome(op, inst[s1], inst[s2], "bool", ZeroDuration,
               compare(op, inst[s1], inst[s2]), 0)

\* a.as_timestamp()
AsTimestamp(s) ==
    /\ BothBound(s, s)
    /\ Outcome("as_timestamp", inst[s], inst[s], "u64", ZeroDuration, FALSE,
               as_timestamp(inst[s]))

\* the outcome goes out of scope
Drop ==
    /\ last.op # "none"
    /\ last' = NoLast
    /\ UNCHANGED <<env, cell, inits, pc, inst, res, maxRet, mono>>

\* ------------------------------------------------------------ environment

\* The OS counters are u64: time passes only as far as they can count.
CountersFit(w, s) ==
    CASE provider \in {"mac", "linux"} ->
            /\ w.secs <= 1
            /\ LET ns == w.secs * NANOS_PER_SEC + w.nanos
               IN  ns <= U64_MAX - base /\ s <= U64_MAX - base - ns
      [] provider = "windows" ->
            /\ w.secs <= 1
            /\ (w.secs * NANOS_PER_SEC + w.nanos + s) \div InterruptTimeUnitNs
                    <= U64_MAX - base
      [] OTHER -> TRUE

\* A span no u64 of milliseconds can count.
Aeon == [secs |-> U64_MAX \div MILLIS_PER_SEC + 1, nanos |-> 0]

\* The spans by which time advances: less than one counter unit, a
\* millisecond, and ten (for the fallback: up to the next full second, and an
\* aeon).
Steps ==
    {[secs |-> 0, nanos |-> n] : n \in {50, 1000000}}
        \cup (IF provider = "unsupported"
              THEN {[secs |-> 0, nanos |-> 999000000], Aeon}
              ELSE {[secs |-> 0, nanos |-> 10000000]})

SuspendNs == 5 * NANOS_PER_MILLI

\* Time passes while the host is awake.
Tick(d) ==
    /\ nticks < MaxTicks
    /\ CountersFit(DurationAdd(wall, d), susp)
    /\ wall' = DurationAdd(wall, d)
    /\ nticks' = nticks + 1
    /\ UNCHANGED <<provider, overflow_checks, base, susp, cell, inits, pc, inst, res,
                   last, maxRet, mono>>

\* The host is suspended for a while and resumes.
Suspend ==
    /\ provider # "unsupported"
    /\ susp = 0
    /\ CountersFit(wall, SuspendNs)
    /\ susp' = SuspendNs
    /\ UNCHANGED <<provider, overflow_checks, base, wall, nticks, cell, inits, pc, inst,
                   res, last, maxRet, mono>>

\* --------------------------------------------------------- specifications

\* Where the OS counters stand when the run starts: some way after boot, and
\* (interrupt time) 15 ms before the largest count whose nanoseconds fit a u64.
Bases(p) ==
    CASE p \in {"mac", "linux"} -> {7777}
      [] p = "windows" -> {U64_MAX \div SYSTEM_TIME_UNIT - 150000}
      [] OTHER -> {0}

InitEnv ==
    /\ provider \in Providers
    /\ overflow_checks \in (IF provider = "windows" THEN BOOLEAN ELSE {FALSE})
    /\ base \in Bases(provider)
    /\ wall = ZeroDuration
    /\ susp = 0
    /\ nticks = 0

InitRest ==
    /\ cell = EmptyCell
    /\ inits = <<>>
    /\ pc = [t \in Threads |-> IdlePc]
    /\ res = [s \in Slots |-> NoResult]
    /\ last = NoLast
    /\ maxRet = [g \in Tags |-> 0]
    /\ mono = TRUE

\* A program that takes timestamps and measures while time passes.
Init ==
    /\ InitEnv
    /\ InitRest
    /\ inst = [s \in Slots |-> NoInstant]

Next ==
    \/ \E d \in Steps : Tick(d)
    \/ Suspend
    \/ \E t \in Threads, s \in Slots : NowIncludingSuspend(t, s)
    \/ \E t \in Threads, s \in Slots : NowExcludingSuspend(t, s)
    \/ \E t \in Threads, s \in Slots : Elapsed(t, s)
    \/ \E t \in Threads : LazyForce(t)
    \/ \E t \in Threads : LazyInit(t)
    \/ \E t \in Threads : InitTimeElapsed(t)

Spec == Init /\ [][Next]_vars

\* The operations of Instant on instants with arbitrary tick values, at a
\* clock that stands still.
SyntheticTicks == {0, 1, U64_MAX}

InitValues ==
    /\ InitEnv
    /\ InitRest
    /\ inst \in [Slots -> {Synthetic(v, g) : v \in SyntheticTicks, g \in Tags}
                            \cup {NoInstant}]

NextValues ==
    \/ \E s1, s2 \in Slots : CheckedDurationSince(s1, s2)
    \/ \E s1, s2 \in Slots : DurationSince(s1, s2)
    \/ \E s1, s2 \in Slots : Sub(s1, s2)
    \/ \E op \in CompareOps, s1, s2 \in Slots : Compare(op, s1, s2)
    \/ \E s \in Slots : AsTimestamp(s)
    \/ Drop
    \/ \E t \in Threads, s \in Slots : NowIncludingSuspend(t, s)
    \/ \E t \in Threads, s \in Slots : NowExcludingSuspend(t, s)
    \/ \E t \in Threads, s \in Slots : Elapsed(t, s)
    \/ \E t \in Threads : LazyForce(t)
    \/ \E t \in Threads : LazyInit(t)
    \/ \E t \in Threads : InitTimeElapsed(t)

SpecValues == InitValues /\ [][NextValues]_vars

\* ================================================================ claims

Abs(x) == IF x < 0 THEN -x ELSE x

\* |a - b| on (secs, nanos) pairs
Apart(a, b) == IF DurationGe(a, b) THEN DurationSub(a, b) ELSE DurationSub(b, a)

\* The clock the provider function f reads.
ClockOf(f) ==
    IF f \in {"now_including_suspend", "now_including_suspend_ms"} THEN IncludingSuspend
    ELSE IF f \in {"now_excluding_suspend", "now_excluding_suspend_ms"} THEN ExcludingSuspend
    ELSE "none"

\* No provider read has left the range in which its conversion is exact: the
\* interrupt time times 100 fits a u64 (windows), the milliseconds since
\* INIT_TIME fit a u64 (fallback). The counters only grow, so this holds of
\* every earlier read as well.
InRange ==
    CASE provider = "windows" -> QueryInterruptTime <= U64_MAX \div InterruptTimeUnitNs
      [] provider = "unsupported" ->
            cell.state = "Complete" => as_millis_try_into(std_Instant_elapsed(cell.value)).some
      [] OTHER -> TRUE

\* ---- C1
\* C1: a.checked_duration_since(b) is Some(exactly a.ticks - b.ticks
\* nanoseconds) when a.ticks >= b.ticks and None when a.ticks < b.ticks, for
\* arbitrary u64 ticks; it never panics and never yields a wrapped difference.
C1_CheckedDurationSince ==
    (last.op = "checked_duration_since" /\ last.kind # "type_error") =>
        IF last.a.ticks >= last.b.ticks
        THEN /\ last.kind = "some"
             /\ last.dur.nanos < NANOS_PER_SEC
             /\ as_nanos(last.dur) = last.a.ticks - last.b.ticks
        ELSE last.kind = "none"

C1_Witness ==
    /\ last.op = "checked_duration_since"
    /\ last.kind = "none"
    /\ last.a.ticks = 0
    /\ last.b.ticks = U64_MAX

\* ---- C2
\* C2: duration_since and `-` return what checked_duration_since returns when
\* a.ticks >= b.ticks and panic exactly when a.ticks < b.ticks; elapsed() is
\* now_<variant>() - self: given the fresh reading of self's own clock, it
\* panics exactly when the reading is smaller than self.ticks and returns the
\* difference otherwise.
C2_PanickingForms ==
    /\ (last.op \in {"duration_since", "sub"} /\ last.kind # "type_error") =>
          LET c == checked_duration_since(last.a, last.b)
          IN  IF last.a.ticks >= last.b.ticks
              THEN last.kind = "ok" /\ c.kind = "some" /\ last.dur = c.dur
              ELSE last.kind = "panic" /\ c.kind = "none"
    /\ \A s \in Slots :
          /\ res[s].kind # "none" => ClockOf(res[s].src) = res[s].self.tag
          /\ res[s].readok =>
                IF res[s].now < res[s].self.ticks
                THEN res[s].kind = "panic"
                ELSE /\ res[s].kind = "ok"
                     /\ as_nanos(res[s].dur) = res[s].now - res[s].self.ticks

C2_Witness ==
    /\ last.op = "sub"
    /\ last.kind = "panic"
    /\ \E s \in Slots :
          res[s].readok /\ res[s].kind = "panic" /\ res[s].now < res[s].self.ticks

C4_OneShotInit ==
    /\ Len(inits) <= 1
    /\ (cell.state = "Complete") <=> (Len(inits) = 1)
    /\ cell.state = "Complete" => cell.value = inits[1]
    /\ \A t \in Threads : pc[t].stage = "read" => cell.state = "Complete"
    /\ provider = "unsupported" =>
          \A s \in Slots :
              /\ (inst[s].kind = "instant" /\ inst[s].src # "synthetic") =>
                    (Len(inits) = 1 /\ inst[s].ref = inits[1])
              /\ res[s].kind # "none" => (Len(inits) = 1 /\ res[s].ref = inits[1])

\* Both threads entered while the cell was not complete and both have been
\* let through, after time had passed before the initializer ran.
C4_Witness ==
    /\ \A t \in Threads : pc[t].stage = "read"
    /\ Len(inits) = 1
    /\ inits[1] # ZeroDuration

\* ---- C5
\* C5: the fallback module defines the two functions lib.rs calls through
\* sys::, and both return the same quantity: the whole milliseconds between
\* the capture of INIT_TIME and the read.
C5_FallbackShape ==
    provider = "unsupported" =>
        /\ sys_required \subseteq sys_exports(provider)
        /\ InRange => now_including_suspend_ms.val = now_excluding_suspend_ms.val
        /\ InRange =>
              \A s \in Slots :
                  (inst[s].kind = "instant" /\ inst[s].src # "synthetic") =>
                      inst[s].ticks = as_millis(DurationSub(inst[s].wall, inst[s].ref))

\* ---- C6
\* C6: on every provider, if at least D milliseconds of awake time pass
\* between t0 = now_<variant>() and the read of t0.elapsed(), the Duration
\* returned is >= D milliseconds. (Stated for reads in range only.)
C6_ElapsedAtLeastSlept ==
    InRange =>
        \A s \in Slots :
            (res[s].kind # "none" /\ res[s].self.src # "synthetic") =>
                LET D == as_millis(DurationSub(res[s].wall, res[s].self.wall))
                IN  /\ res[s].kind = "ok"
                    /\ DurationGe(res[s].dur, from_millis(D))

\* ---- C7
Times100(t, r) == t \div InterruptTimeUnitNs = r /\ t % InterruptTimeUnitNs = 0

\* C7 as stated: for every raw interrupt time r the windows provider returns
\* exactly r * 100, without overflow, wrap-around or panic.
C7_Times100Always ==
    provider = "windows" =>
        \A s \in Slots :
            /\ inst[s].kind # "empty" =>
                  (inst[s].kind = "instant" /\ Times100(inst[s].ticks, inst[s].raw))
            /\ res[s].kind # "none" =>
                  (res[s].readok /\ Times100(res[s].now, res[s].raw))

\* C7 as amended: for every r <= u64::MAX / 100 it returns exactly r * 100;
\* for a larger r the multiplication overflows: a panic where overflow is
\* checked, a value that is not r * 100 where it is not.
C7_Times100InRange ==
    provider = "windows" =>
        \A s \in Slots :
            /\ inst[s].kind # "empty" =>
                  IF inst[s].raw <= U64_MAX \div InterruptTimeUnitNs
                  THEN inst[s].kind = "instant" /\ Times100(inst[s].ticks, inst[s].raw)
                  ELSE IF overflow_checks THEN inst[s].kind = "panic"
                  ELSE inst[s].kind = "instant" /\ ~Times100(inst[s].ticks, inst[s].raw)
            /\ res[s].kind # "none" =>
                  IF res[s].raw <= U64_MAX \div InterruptTimeUnitNs
                  THEN res[s].readok /\ Times100(res[s].now, res[s].raw)
                  ELSE IF overflow_checks THEN ~res[s].readok
                  ELSE res[s].readok /\ ~Times100(res[s].now, res[s].raw)

C7_Witness ==
    /\ provider = "windows"
    /\ \E s \in Slots :
          /\ inst[s].kind = "instant"
          /\ inst[s].raw > 0
          /\ inst[s].raw <= U64_MAX \div InterruptTimeUnitNs
          /\ res[s].readok
          /\ res[s].raw > inst[s].raw
          /\ res[s].raw <= U64_MAX \div InterruptTimeUnitNs

\* ---- C8
\* C8: every comparison of two instants of one variant gives what the same
\* comparison of their as_timestamp() values gives; as_timestamp() is the
\* tick value the instant was created with, whatever has been called on it.
C8_OrderingIsTimestampOrdering ==
    /\ last.kind = "bool" =>
          last.flag = (CASE last.op = "lt" -> as_timestamp(last.a) < as_timestamp(last.b)
                         [] last.op = "le" -> as_timestamp(last.a) <= as_timestamp(last.b)
                         [] last.op = "eq" -> as_timestamp(last.a) = as_timestamp(last.b)
                         [] last.op = "ge" -> as_timestamp(last.a) >= as_timestamp(last.b)
                         [] OTHER -> as_timestamp(last.a) > as_timestamp(last.b))
    /\ last.op = "as_timestamp" => last.num = last.a.created
    /\ \A s \in Slots :
          /\ inst[s].kind = "instant" => as_timestamp(inst[s]) = inst[s].created
          /\ res[s].kind # "none" => res[s].self = inst[s]

C8_Witness ==
    /\ last.op = "lt"
    /\ last.kind = "bool"
    /\ last.flag
    /\ last.a.ticks < last.b.ticks
    /\ res[1].kind # "none"
    /\ res[2].kind # "none"

\* ---- C9
\* The two bindings are one of each clock, both elapsed() returned, and the
\* host was not suspended between the first and the last of the four reads.
ClosePair(s1, s2) ==
    /\ inst[s1].kind = "instant" /\ inst[s1].tag = IncludingSuspend
    /\ inst[s2].kind = "instant" /\ inst[s2].tag = ExcludingSuspend
    /\ inst[s1].src # "synthetic" /\ inst[s2].src # "synthetic"
    /\ res[s1].kind = "ok" /\ res[s2].kind = "ok"
    /\ inst[s1].susp = inst[s2].susp
    /\ res[s1].susp = inst[s1].susp
    /\ res[s2].susp = inst[s1].susp

DiffMs(s1, s2) == Abs(as_millis(res[s1].dur) - as_millis(res[s2].dur))

\* The time between the two initial reads plus the time between the two
\* elapsed() reads.
Delays(s1, s2) ==
    DurationAdd(Apart(inst[s1].wall, inst[s2].wall), Apart(res[s1].wall, res[s2].wall))

====
